---- MODULE Spec2Model ----
(***************************************************************************)
(* A model of the nodes handler of src/__init__.py: the per-user registry  *)
(* (UserStatusList), the per-user session (UserStatus), the navigation     *)
(* history (NodesHistory), the dialog nodes (Node, NamedNode, SwitchNode,  *)
(* NamedSwitchNode) and the router (NodesHandler).                         *)
(*                                                                         *)
(* Node ids are the object identities of the Node instances, handler ids   *)
(* (strings) the object identities of the telegram.ext handlers. A handler *)
(* is a collaborator of the library: all the model knows of it is the set  *)
(* of events its check_update accepts and the set of values its callback   *)
(* may return.                                                             *)
(***************************************************************************)
EXTENDS Integers, Sequences, FiniteSets, TLC

VARIABLES
    cfg,               \* the constructed router and node tree (never assigned after Init)
    senders,           \* the users that send updates (never assigned after Init)
    texts,             \* the texts they send (never assigned after Init)
    registry,          \* UserStatusList._ : user id -> UserStatus
    back_str,          \* Node.back_str of every node
    user_status_list,  \* Node.user_status_list of every node: bound to the registry or None
    next_oid,          \* identity of the next UserStatus object to be constructed
    inflight,          \* the update the dispatcher has had accepted and not yet handled
    workers,           \* threads inside UserStatusList.__getitem__ (concurrent lookups)
    last               \* what the last operation was and did (observation only)

vars == <<cfg, senders, texts, registry, back_str, user_status_list, next_oid, inflight,
          workers, last>>

-----------------------------------------------------------------------------
(* Bounds of the model *)

\* number of user identifiers
NumUsers == 2
\* an update is not taken when handling it leaves a history deeper than this
MaxHist == 3
\* depth of the handle_entry -> handle_inside recursion that is followed
MaxChain == 12
\* number of threads that look users up concurrently
NumWorkers == 2
\* number of UserStatus objects constructed in the concurrent lookups
MaxObjects == 3

Users == 1..NumUsers
Workers == 1..NumWorkers

-----------------------------------------------------------------------------
(* Values *)

\* Python's None where a Node is expected
None == 0
\* Python's None where a str is expected
NoStr == "<None>"
\* the identity of the root node and of the other nodes
Nodes == 1..5

\* Node.INSIDE_NOT_VALID
INSIDE_NOT_VALID == -1

\* what a callback returns: None, an integer or a Node
RNone == [kind |-> "None", val |-> 0]
RInt(i) == [kind |-> "int", val |-> i]
RNode(n) == [kind |-> "Node", val |-> n]

\* a reference held in UserStatus.current_handler / current_node_handler:
\* None, a handler, a Node or (see NodesHandler.check_update) a list of handlers
HNone == [kind |-> "None", h |-> "", n |-> 0]
HRef(h) == [kind |-> "handler", h |-> h, n |-> 0]
NRef(n) == [kind |-> "Node", h |-> "", n |-> n]
LRef(name) == [kind |-> "list", h |-> name, n |-> 0]

\* bool(x) of a str or None
TruthyStr(s) == s # NoStr /\ s # ""

\* what a node sends as greeting or closing (hello, goodbye): None, one
\* message, or a list of n messages
NoSend == [kind |-> "None", n |-> 0]
Message == [kind |-> "obj", n |-> 1]
Messages(n) == [kind |-> "list", n |-> n]
\* bool(to_send)
TruthySend(to_send) == to_send.kind = "obj" \/ (to_send.kind = "list" /\ to_send.n > 0)
\* the number of messages Node.reply sends for to_send
SendCount(to_send) == IF to_send.kind = "None" THEN 0 ELSE to_send.n

\* a keyboard: None, or a list of rows of button texts
NoKeyboard == [some |-> FALSE, rows |-> <<>>]
Keyboard(rows) == [some |-> TRUE, rows |-> rows]

Last(s) == s[Len(s)]
InSeq(x, s) == \E i \in 1..Len(s) : s[i] = x

Range(s) == {s[i] : i \in 1..Len(s)}

-----------------------------------------------------------------------------
(* The handlers of the library used in the trees, and the updates *)

\* the texts of the updates sent to the bot; "zzz" is accepted by no handler
Events == {"start", "go", "back", "exit", "ok", "help", "n2", "n3", "n4", "zzz"}

\* handlers given to the router
EntryHandlers == <<"E1", "E2">>
ExitHandlers == <<"X1", "X2">>
FallbackHandlers == <<"F1", "F2">>
\* the RegexHandler the router builds from back_str
BackRegexHandler == "BK"
\* handlers given to the router as back_handlers
BackHandlers == <<"B1", "B2">>
\* the text given as back_str
BackText == "back"

\* per node: the handler given as (or built for) its entry, its two in-node
\* handlers and its in-node fallback
EntryH == <<"e1", "e2", "e3", "e4", "e5">>
InsideH == <<"i1", "i2", "i3", "i4", "i5">>
InsideH2 == <<"j1", "j2", "j3", "j4", "j5">>
FallbackH == <<"f1", "f2", "f3", "f4", "f5">>
\* the names given to NamedNodes
NodeName == <<"start", "n2", "n3", "n4", "n5">>

Handlers == Range(EntryHandlers) \cup Range(ExitHandlers) \cup Range(FallbackHandlers)
            \cup {BackRegexHandler} \cup Range(BackHandlers)
            \cup Range(EntryH) \cup Range(InsideH) \cup Range(InsideH2) \cup Range(FallbackH)

\* handler.check_update(update): the texts the handler's filter or pattern accepts.
\* Several handlers accept the same text, in one list and across lists.
Accepts(h) ==
    CASE h = "E1" -> {"start"}
      [] h = "E2" -> {"start", "go"}
      [] h = "BK" -> {BackText}
      [] h = "B1" -> {"back"}
      [] h = "B2" -> {"back", "n3"}
      [] h = "X1" -> {"exit", "back"}
      [] h = "X2" -> {"exit"}
      [] h = "F1" -> {"help", "ok"}
      [] h = "F2" -> {"help", "go", "n2"}
      [] h \in Range(EntryH) -> {NodeName[CHOOSE n \in Nodes : EntryH[n] = h]}
      [] h \in Range(InsideH) -> {"ok"}
      [] h \in Range(InsideH2) -> {"ok", "go"}
      [] h \in Range(FallbackH) -> {"help", "back"}

check_update_of(h, e) == e \in Accepts(h)

-----------------------------------------------------------------------------
(* Construction of the nodes *)

\* the keyword arguments of Node.__init__ at their defaults
NodeDefaults ==
    [entry_handlers |-> <<>>, auto_entry |-> TRUE, hello |-> NoSend,
     reply_keyboard |-> NoKeyboard, remove_keyboard |-> FALSE,
     inline_keyboard |-> FALSE, inside_handlers |-> <<>>, inside_fallbacks |-> <<>>,
     goodbye |-> NoSend, switch_on_this |-> TRUE, allow_back |-> TRUE]

\* Node.__init__: the attributes of a constructed Node. inline_keyboard is
\* held as its truth value, all the lifecycle reads of it.
Node_init(kw) ==
    [cls |-> "Node",
     entry_handlers |-> kw.entry_handlers,
     auto_entry |-> kw.auto_entry,
     hello |-> kw.hello,
     reply_keyboard |-> kw.reply_keyboard,
     remove_keyboard |-> kw.remove_keyboard,
     inline_keyboard |-> kw.inline_keyboard,
     inside_handlers |-> kw.inside_handlers,
     inside_fallbacks |-> kw.inside_fallbacks,
     goodbye |-> kw.goodbye,
     switch_on_this |-> kw.switch_on_this,
     allow_back |-> kw.allow_back,
     next_node |-> None,
     name |-> NoStr,
     switch_nodes |-> <<>>]

\* NamedNode.__init__: a RegexHandler of the name is the only entry handler;
\* auto_entry is not passed on and stays at its default
NamedNode_init(name, entry_handler, kw) ==
    [Node_init([kw EXCEPT !.entry_handlers = <<entry_handler>>,
                          !.auto_entry = NodeDefaults.auto_entry])
       EXCEPT !.cls = "NamedNode", !.name = name]

isinstance_NamedNode(node) == node.cls \in {"NamedNode", "NamedSwitchNode"}

RECURSIVE Concat(_)
Concat(ss) == IF ss = <<>> THEN <<>> ELSE Head(ss) \o Concat(Tail(ss))

\* the names of the NamedNodes of one row of children
RECURSIVE RowNames(_, _)
RowNames(row, nodes) ==
    IF row = <<>> THEN <<>>
    ELSE (IF isinstance_NamedNode(nodes[Head(row)]) THEN <<nodes[Head(row)].name>> ELSE <<>>)
         \o RowNames(Tail(row), nodes)

\* SwitchNode.__init__: switch_nodes is the rows flattened, the in-node handlers
\* are the children's entry handlers in that order, the keyboard holds one row
\* per row of children with the names of its NamedNodes
SwitchNode_init(kw, switch_nodes, keyboard_from_names, nodes) ==
    LET flat == Concat(switch_nodes)
        inside_handlers == Concat([i \in 1..Len(flat) |-> nodes[flat[i]].entry_handlers])
        keyboard == IF keyboard_from_names
                    THEN Keyboard([r \in 1..Len(switch_nodes) |-> RowNames(switch_nodes[r], nodes)])
                    ELSE NoKeyboard
    IN [Node_init([NodeDefaults EXCEPT !.entry_handlers = kw.entry_handlers,
                                       !.hello = kw.hello,
                                       !.reply_keyboard = keyboard,
                                       !.remove_keyboard = kw.remove_keyboard,
                                       !.inside_handlers = inside_handlers,
                                       !.goodbye = kw.goodbye,
                                       !.switch_on_this = kw.switch_on_this,
                                       !.allow_back = kw.allow_back])
          EXCEPT !.cls = "SwitchNode", !.switch_nodes = flat]

\* NamedSwitchNode.__init__: NamedNode.__init__, then SwitchNode.__init__ on the
\* attributes it set; remove_keyboard is not passed to the second and is reset
NamedSwitchNode_init(name, entry_handler, kw, switch_nodes, keyboard_from_names, nodes) ==
    LET named == NamedNode_init(name, entry_handler,
                    [NodeDefaults EXCEPT !.hello = kw.hello,
                                         !.remove_keyboard = kw.remove_keyboard,
                                         !.goodbye = kw.goodbye,
                                         !.switch_on_this = kw.switch_on_this,
                                         !.allow_back = kw.allow_back])
        switch == SwitchNode_init(
                    [NodeDefaults EXCEPT !.entry_handlers = named.entry_handlers,
                                         !.hello = named.hello,
                                         !.goodbye = named.goodbye,
                                         !.switch_on_this = named.switch_on_this,
                                         !.allow_back = named.allow_back],
                    switch_nodes, keyboard_from_names, nodes)
    IN [switch EXCEPT !.cls = "NamedSwitchNode", !.name = named.name]

\* Node.next
Node_next(node, next_node) == [node EXCEPT !.next_node = next_node]

-----------------------------------------------------------------------------
(* UserStatus, UserStatusList, NodesHistory *)

\* UserStatus.__init__; oid is the identity of the constructed object
UserStatus_init(oid) ==
    [oid |-> oid,
     nodes_handler_entered |-> FALSE,
     current_handler |-> HNone,
     current_node_handler |-> HNone,
     nodes_history |-> <<>>,
     display_node |-> None,
     is_inside_current_node |-> FALSE,
     next_node |-> None]

\* faulty variant: no user is found
UserStatusList_contains_never(reg, user_id) == FALSE

\* UserStatusList.__contains__
UserStatusList_contains(reg, user_id) == user_id \in DOMAIN reg

\* UserStatusList.init_user
UserStatusList_init_user(reg, user_id, oid) ==
    [u \in (DOMAIN reg) \cup {user_id} |-> IF u = user_id THEN UserStatus_init(oid) ELSE reg[u]]

\* UserStatusList.__getitem__ run as one step: the registry afterwards and
\* whether a UserStatus was constructed; the value returned is reg[user_id]
UserStatusList_getitem(reg, user_id, oid) ==
    IF ~UserStatusList_contains(reg, user_id)
    THEN [reg |-> UserStatusList_init_user(reg, user_id, oid), created |-> TRUE]
    ELSE [reg |-> reg, created |-> FALSE]

\* faulty variant: the bottom of the history is taken
NodesHistory_current_bottom(h) == IF Len(h) # 0 THEN h[1] ELSE None

\* NodesHistory.current
NodesHistory_current(h) == IF Len(h) # 0 THEN h[Len(h)] ELSE None

\* faulty variant: a history of one node can go back
NodesHistory_can_back_from_root(h) == Len(h) >= 1

\* NodesHistory.can_back
NodesHistory_can_back(h) == Len(h) > 1

\* faulty variant: the root is appended to what the history holds
NodesHistory_set_root_append(h, root_node) == Append(h, root_node)

\* NodesHistory.set_root
NodesHistory_set_root(h, root_node) == <<root_node>>

\* faulty variant: nothing is popped
NodesHistory_back_keep(h) == [h |-> h, err |-> IF Len(h) = 0 THEN "IndexError" ELSE ""]

\* NodesHistory.back: list.pop(), then self._[-1]; either raises IndexError on
\* an empty list
NodesHistory_back(h) ==
    IF Len(h) = 0 THEN [h |-> h, err |-> "IndexError"]
    ELSE [h |-> SubSeq(h, 1, Len(h) - 1),
          err |-> IF Len(h) = 1 THEN "IndexError" ELSE ""]

\* faulty variant: every update is taken for the first user's
effective_user_id_first(update) == 1

\* update.effective_user.id
effective_user_id(update) == update.user

-----------------------------------------------------------------------------
(* What one call of the router works on: the registry, the mutable           *)
(* attributes of the nodes, what was done (log) and the exception raised.    *)

NoMarkup == [type |-> "None", rows |-> <<>>]
LogEntry(kind, node, h, markup) == [kind |-> kind, node |-> node, h |-> h, markup |-> markup]
Logged(c, kind, node, h) == [c EXCEPT !.log = Append(@, LogEntry(kind, node, h, NoMarkup))]
Raise(c, exc) == [c EXCEPT !.err = exc]

\* self.user_status_list[user_id] inside a Node method: None is not subscriptable
NodeBound(c, self) == c.usl[self]

\* user_status_list[user_id] for the user of the call:
\* UserStatusList.__getitem__ constructs the UserStatus of a user the registry
\* does not hold (x is the value of c)
Lookup(c) ==
    CHOOSE r \in {[x EXCEPT !.reg = UserStatusList_getitem(x.reg, x.uid, x.next_oid).reg,
                            !.next_oid = IF UserStatusList_getitem(x.reg, x.uid, x.next_oid).created
                                         THEN @ + 1 ELSE @] : x \in {c}} : TRUE

\* Node.reply: one message with the markup, or, for a list, every message but
\* the last without markup and followed by a chat action, then the last with
\* the markup; for None reply_object finds no type to send and sends nothing
RECURSIVE Node_reply(_, _, _, _, _)
Node_reply(c, kind, self, to_send, markup) ==
    IF to_send.kind = "None" THEN c
    ELSE IF to_send.kind # "list"
    THEN [c EXCEPT !.log = Append(@, LogEntry(kind, self, "", markup))]
    ELSE IF to_send.n = 0 THEN Raise(c, "IndexError")
    ELSE IF to_send.n = 1
    THEN [c EXCEPT !.log = Append(@, LogEntry(kind, self, "", markup))]
    ELSE Node_reply([c EXCEPT !.log = @ \o <<LogEntry(kind, self, "", NoMarkup),
                                             LogEntry("typing", None, "", NoMarkup)>>],
                    kind, self, Messages(to_send.n - 1), markup)

\* bool(node.reply_keyboard): the property returns a copy of a list, else None
reply_keyboard_truthy(node) == node.reply_keyboard.some /\ Len(node.reply_keyboard.rows) > 0

\* Node.add_keyboard_button with max_row_len = 2
max_row_len == 2
add_keyboard_button(keyboard, btn) ==
    IF Len(keyboard) > 0 /\ Len(Last(keyboard)) < max_row_len
    THEN [keyboard EXCEPT ![Len(keyboard)] = Append(@, btn)]
    ELSE Append(keyboard, <<btn>>)

\* the reply_markup Node.handle_entry builds for the greeting
\* faulty variant: the back button does not depend on can_back
entry_markup_back_always(node, can_back, bstr) ==
    IF node.remove_keyboard THEN [type |-> "remove", rows |-> <<>>]
    ELSE IF reply_keyboard_truthy(node)
         THEN [type |-> "reply",
               rows |-> IF node.allow_back /\ TruthyStr(bstr)
                        THEN add_keyboard_button(node.reply_keyboard.rows, bstr)
                        ELSE node.reply_keyboard.rows]
         ELSE IF node.inline_keyboard THEN [type |-> "inline", rows |-> <<>>]
         ELSE NoMarkup

\* the reply_markup of the greeting that Node.handle_entry sends
entry_markup(node, can_back, bstr) ==
    IF node.remove_keyboard THEN [type |-> "remove", rows |-> <<>>]
    ELSE IF reply_keyboard_truthy(node)
         THEN [type |-> "reply",
               rows |-> IF node.allow_back /\ can_back /\ TruthyStr(bstr)
                        THEN add_keyboard_button(node.reply_keyboard.rows, bstr)
                        ELSE node.reply_keyboard.rows]
         ELSE IF node.inline_keyboard THEN [type |-> "inline", rows |-> <<>>]
         ELSE NoMarkup

\* faulty variant: the pushed node is given a back string of its own
NodesHistory_add_own(c, node) ==
    [c EXCEPT !.back_str[node] = "own",
              !.reg[c.uid].nodes_history = Append(@, node),
              !.log = Append(@, LogEntry("push", node, "", NoMarkup))]

\* NodesHistory.add on the history of the user of c: the node inherits the
\* back_str of the current top, then is appended
NodesHistory_add(c, node) ==
    LET h == c.reg[c.uid].nodes_history
        cur == NodesHistory_current(h)
        c1 == IF cur # None THEN [c EXCEPT !.back_str[node] = c.back_str[cur]] ELSE c
    IN [c1 EXCEPT !.reg[c.uid].nodes_history = Append(h, node),
                  !.log = Append(@, LogEntry("push", node, "", NoMarkup))]

\* faulty variant: the first child is taken whatever the handler
elected_child_first(switch_nodes, handler, nodes) ==
    IF switch_nodes = <<>> THEN None ELSE Head(switch_nodes)

\* the child of a SwitchNode whose entry handlers hold the handler: the first in order
RECURSIVE elected_child(_, _, _)
elected_child(switch_nodes, handler, nodes) ==
    IF switch_nodes = <<>> THEN None
    ELSE IF handler.kind = "handler" /\ InSeq(handler.h, nodes[Head(switch_nodes)].entry_handlers)
         THEN Head(switch_nodes)
         ELSE elected_child(Tail(switch_nodes), handler, nodes)

\* faulty variant: every next node is pushed
participates_always(node) == TRUE

\* faulty variant: no next node is pushed
participates_never(node) == FALSE

\* "if user_status.display_node.switch_on_this" of Node.handle_inside
participates(node) == node.switch_on_this

\* faulty variant: the pending next node is not looked at
next_or_static(pending, static) == static

\* "user_status.next_node or self.next_node" of Node.handle_inside
next_or(pending, static) == IF pending # None THEN pending ELSE static

\* faulty variant: every node goes on into its inside lifecycle
auto_advance_always(node) == TRUE

\* "if not self.inside_handlers" of Node.handle_entry
auto_advance(node) == node.inside_handlers = <<>>

RECURSIVE Node_handle_entry(_, _, _), Node_handle_inside(_, _, _)

\* SwitchNode.handle_inside
SwitchNode_handle_inside(self, c, fuel) ==
    IF ~NodeBound(c, self) THEN Raise(c, "TypeError")
    ELSE LET c0 == Lookup(c)
             child == elected_child(cfg.nodes[self].switch_nodes,
                                    c0.reg[c.uid].current_node_handler, cfg.nodes)
             c1 == IF child # None THEN [c0 EXCEPT !.reg[c.uid].next_node = child] ELSE c0
         IN Node_handle_inside(self, c1, fuel)

\* self.handle_inside(...): the method of the node's class
handle_inside(self, c, fuel) ==
    IF cfg.nodes[self].cls \in {"SwitchNode", "NamedSwitchNode"}
    THEN SwitchNode_handle_inside(self, c, fuel)
    ELSE Node_handle_inside(self, c, fuel)

\* Node.handle_entry
Node_handle_entry(self, c, fuel) ==
    IF c.err # "" THEN c
    ELSE IF fuel = 0 THEN Raise(c, "RecursionError")
    ELSE IF ~NodeBound(c, self) THEN Raise(c, "TypeError")
    ELSE
    LET node == cfg.nodes[self]
        c1 == [Lookup(c) EXCEPT !.reg[c.uid].is_inside_current_node = TRUE,
                        !.log = Append(@, LogEntry("entry", self, "", NoMarkup))]
        c2 == IF TruthySend(node.hello)
              THEN Node_reply(c1, "hello", self, node.hello,
                        entry_markup(node,
                                     NodesHistory_can_back(c1.reg[c1.uid].nodes_history),
                                     c1.back_str[self]))
              ELSE c1
    IN IF auto_advance(node) THEN handle_inside(self, c2, fuel - 1) ELSE c2

\* Node.handle_inside
Node_handle_inside(self, c, fuel) ==
    IF c.err # "" THEN c
    ELSE IF ~NodeBound(c, self) THEN Raise(c, "TypeError")
    ELSE
    LET node == cfg.nodes[self]
        c0 == Logged(Lookup(c), "inside", self, "")
        c1 == IF TruthySend(node.goodbye)
              THEN Node_reply(c0, "goodbye", self, node.goodbye, NoMarkup) ELSE c0
        c2 == [c1 EXCEPT !.reg[c.uid].is_inside_current_node = FALSE]
        next_node == next_or(c2.reg[c.uid].next_node, node.next_node)
    IN IF next_node # None
       THEN LET c3 == [c2 EXCEPT !.usl[next_node] = TRUE,
                                 !.reg[c.uid].display_node = next_node]
                c4 == IF participates(cfg.nodes[next_node])
                      THEN NodesHistory_add(c3, next_node) ELSE c3
                c5 == [c4 EXCEPT !.reg[c.uid].next_node = None]
            IN IF cfg.nodes[next_node].auto_entry
               THEN LET c6 == IF node.next_node # None
                                 /\ cfg.nodes[next_node].entry_handlers # <<>>
                              THEN Logged(c5, "callback", next_node,
                                          cfg.nodes[next_node].entry_handlers[1])
                              ELSE c5
                    IN Node_handle_entry(next_node, c6, fuel)
               ELSE c5
       ELSE LET c3 == IF ~node.switch_on_this
                      THEN [c2 EXCEPT !.reg[c.uid].is_inside_current_node = TRUE]
                      ELSE c2
            IN [c3 EXCEPT !.reg[c.uid].next_node = None]

-----------------------------------------------------------------------------
(* Matching: NodesHandler.check_update, Node.check_update *)

\* the loop "for candidate in candidates: if candidate.check_update(update)":
\* the first candidate that accepts ("" when none does) and the candidates asked
\* faulty variant: every candidate is asked and the last that accepts is taken
scan_last(candidates, text) ==
    LET acc == {i \in 1..Len(candidates) : check_update_of(candidates[i], text)}
    IN [hit |-> IF acc = {} THEN "" ELSE candidates[CHOOSE i \in acc : \A j \in acc : j <= i],
        asked |-> candidates]

RECURSIVE scan(_, _)
scan(candidates, text) ==
    IF candidates = <<>> THEN [hit |-> "", asked |-> <<>>]
    ELSE IF check_update_of(Head(candidates), text)
         THEN [hit |-> Head(candidates), asked |-> <<Head(candidates)>>]
         ELSE LET r == scan(Tail(candidates), text)
              IN [hit |-> r.hit, asked |-> <<Head(candidates)>> \o r.asked]

\* Node.check_candidates: the elected candidate becomes current_node_handler;
\* the session is looked up when a candidate accepts, which raises on a node
\* that is not bound to the registry
Node_check_candidates(self, c, update, candidates) ==
    LET r == scan(candidates, update.text)
        c1 == [c EXCEPT !.asked = @ \o r.asked]
    IN IF r.hit # ""
       THEN IF ~NodeBound(c, self) THEN Raise([c1 EXCEPT !.ret = FALSE], "TypeError")
            ELSE [Lookup(c1)
                     EXCEPT !.reg[effective_user_id(update)].current_node_handler = HRef(r.hit),
                            !.ret = TRUE]
       ELSE [c1 EXCEPT !.ret = FALSE]

\* faulty variant: the in-node lists are asked whatever the inside flag is
Node_check_update_ungated(self, c, update) ==
    LET c1 == Node_check_candidates(self, c, update, cfg.nodes[self].inside_handlers)
    IN IF c1.ret \/ c1.err # "" THEN c1
       ELSE Node_check_candidates(self, c1, update, cfg.nodes[self].inside_fallbacks)

\* Node.check_update
Node_check_update(self, c, update) ==
    IF ~NodeBound(c, self) THEN Raise([c EXCEPT !.ret = FALSE], "TypeError")
    ELSE LET node == cfg.nodes[self]
             c0 == Lookup(c) IN
    IF ~c0.reg[effective_user_id(update)].is_inside_current_node
    THEN Node_check_candidates(self, c0, update, node.entry_handlers)
    ELSE LET c1 == Node_check_candidates(self, c0, update, node.inside_handlers)
         IN IF c1.ret \/ c1.err # "" THEN c1
            ELSE Node_check_candidates(self, c1, update, node.inside_fallbacks)

\* a context for one call on behalf of the update's user
Context(reg, update) ==
    [reg |-> reg, uid |-> effective_user_id(update), next_oid |-> next_oid,
     back_str |-> back_str, usl |-> user_status_list, log |-> <<>>, err |-> "",
     ret |-> FALSE, asked |-> <<>>, category |-> "none", result |-> RNone]

\* faulty variant: electing a handler also marks the session not inside
Elect_and_leave(c, category, ref) ==
    [c EXCEPT !.reg[c.uid].current_handler = ref, !.ret = TRUE, !.category = category,
              !.reg[c.uid].is_inside_current_node = FALSE]

\* "user_status.current_handler = ...; return True"
Elect(c, category, ref) ==
    [c EXCEPT !.reg[c.uid].current_handler = ref, !.ret = TRUE, !.category = category]

\* NodesHandler.check_update, from "# check back" on
NodesHandler_check_entered(c, update) ==
    LET us == c.reg[c.uid]
        cur == NodesHistory_current(us.nodes_history)
    IN IF cur = None THEN Raise(c, "AttributeError")
       ELSE
       LET try_back == cfg.nodes[cur].allow_back /\ NodesHistory_can_back(us.nodes_history)
           rb == IF try_back THEN scan(cfg.back_handlers, update.text)
                 ELSE [hit |-> "", asked |-> <<>>]
           cb == [c EXCEPT !.asked = @ \o rb.asked]
       IN IF rb.hit # "" THEN Elect(cb, "back", HRef(rb.hit))
          ELSE
          LET rx == scan(cfg.exit_handlers, update.text)
              cx == [cb EXCEPT !.asked = @ \o rx.asked]
          IN IF rx.hit # "" THEN Elect(cx, "exit", LRef("exit_handlers"))
             ELSE
             LET cn == Node_check_update(cur, cx, update)
             IN IF cn.err # "" THEN cn
                ELSE IF cn.ret THEN Elect(cn, "node", NRef(cur))
                ELSE
                LET rf == scan(cfg.fallback_handlers, update.text)
                    cf == [cn EXCEPT !.asked = @ \o rf.asked]
                IN IF rf.hit # "" THEN Elect(cf, "fallback", HRef(rf.hit))
                   ELSE [cf EXCEPT !.ret = FALSE]

\* NodesHandler.check_update
NodesHandler_check_update(c, update) ==
    LET c0 == Lookup(c)
        us == c0.reg[c.uid]
        try_entry == ~us.nodes_handler_entered \/ cfg.allow_reentry
        re == IF try_entry THEN scan(cfg.entry_handlers, update.text)
              ELSE [hit |-> "", asked |-> <<>>]
        ce == [c0 EXCEPT !.asked = @ \o re.asked]
    IN IF re.hit # "" THEN Elect(ce, "entry", HRef(re.hit))
       ELSE IF us.nodes_handler_entered THEN NodesHandler_check_entered(ce, update)
       ELSE [ce EXCEPT !.ret = FALSE]

-----------------------------------------------------------------------------
(* Handling: NodesHandler.handle_update, Node.handle_update *)

UserStatus_enter_current_node(c) == [c EXCEPT !.reg[c.uid].is_inside_current_node = TRUE]
UserStatus_exit_current_node(c) == [c EXCEPT !.reg[c.uid].is_inside_current_node = FALSE]
UserStatus_enter_nodes_handler(c) == [c EXCEPT !.reg[c.uid].nodes_handler_entered = TRUE]
UserStatus_exit_nodes_handler(c) == [c EXCEPT !.reg[c.uid].nodes_handler_entered = FALSE]

\* faulty variant: neither the callback nor the entry lifecycle is run
RunEntry_skip(c, display_node, first, node) == c

\* "if display_node.entry_handlers: display_node.entry_handlers[i].handle_update(...)"
\* with i = 0 (first = TRUE) or i = -1, then node.handle_entry(...)
RunEntry(c, display_node, first, node) ==
    IF display_node = None \/ node = None THEN Raise(c, "AttributeError")
    ELSE LET ehs == cfg.nodes[display_node].entry_handlers
             c1 == IF ehs # <<>>
                   THEN Logged(c, "callback", display_node, IF first THEN ehs[1] ELSE Last(ehs))
                   ELSE c
         IN Node_handle_entry(node, c1, MaxChain)

\* Node.handle_update; res is what the elected handler's callback returns
Node_handle_update(self, c, update, res) ==
    IF ~NodeBound(c, self) THEN Raise(c, "TypeError")
    ELSE
    LET node == cfg.nodes[self]
        c0 == Lookup(c)
        handler == c0.reg[c.uid].current_node_handler
    IN IF handler.kind # "handler" THEN Raise(c0, "AttributeError")
       ELSE
       LET c1 == [Logged(c0, "callback", self, handler.h) EXCEPT !.result = res]
           c2 == IF res.kind = "Node" THEN [c1 EXCEPT !.reg[c.uid].next_node = res.val] ELSE c1
           display_node == c2.reg[c.uid].display_node
       IN IF res = RInt(INSIDE_NOT_VALID) \/ InSeq(handler.h, node.inside_fallbacks)
          THEN RunEntry(c2, display_node, TRUE, display_node)
          ELSE IF InSeq(handler.h, node.entry_handlers)
          THEN Node_handle_entry(self, c2, MaxChain)
          ELSE IF InSeq(handler.h, node.inside_handlers)
          THEN handle_inside(self, c2, MaxChain)
          ELSE c2

\* NodesHandler.handle_update, the part after the elected handler has run
NodesHandler_after_handler(c, handler) ==
    LET is_entry == handler.kind = "handler" /\ InSeq(handler.h, cfg.entry_handlers)
        is_back == handler.kind = "handler" /\ InSeq(handler.h, cfg.back_handlers)
        is_exit == handler.kind = "handler" /\ InSeq(handler.h, cfg.exit_handlers)
    IN IF is_entry
       THEN LET c1 == UserStatus_enter_nodes_handler(c)
                c2 == [c1 EXCEPT !.reg[c.uid].display_node = cfg.root_node]
                c3 == [c2 EXCEPT !.reg[c.uid].nodes_history =
                                     NodesHistory_set_root(@, cfg.root_node)]
            IN RunEntry(c3, cfg.root_node, FALSE,
                        NodesHistory_current(c3.reg[c.uid].nodes_history))
       ELSE IF is_back
       THEN LET b == NodesHistory_back(c.reg[c.uid].nodes_history)
                c1 == [c EXCEPT !.reg[c.uid].nodes_history = b.h]
            IN IF b.err # "" THEN Raise(c1, b.err)
               ELSE LET top == NodesHistory_current(b.h)
                        c2 == [c1 EXCEPT !.reg[c.uid].display_node = top]
                        c3 == UserStatus_enter_current_node(c2)
                    IN RunEntry(c3, top, FALSE, top)
       ELSE IF is_exit THEN UserStatus_exit_nodes_handler(c)
       ELSE c

\* NodesHandler.handle_update; res is what the elected handler's callback returns
NodesHandler_handle_update(c, update, res) ==
    LET c0 == Logged(Lookup(c), "typing", None, "")
        handler == c0.reg[c0.uid].current_handler
    IN IF handler.kind \in {"None", "list"} THEN Raise(c0, "AttributeError")
       ELSE
       LET c1 == IF handler.kind = "Node"
                 THEN Node_handle_update(handler.n, c0, update, res)
                 ELSE [Logged(c0, "callback", None, handler.h) EXCEPT !.result = res]
       IN IF c1.err # "" THEN c1 ELSE NodesHandler_after_handler(c1, handler)

-----------------------------------------------------------------------------
(* Construction of the router and the trees the model is run on *)

\* NodesHandler.__init__: without back_handlers, a RegexHandler of back_str is
\* the back handler. results gives what the callback of each handler may return.
NodesHandler_init(root_node, entry_handlers, back_handlers, bstr, fallback_handlers, exit_handlers, allow_reentry, nodes, results) ==
    [root_node |-> root_node,
     entry_handlers |-> entry_handlers,
     back_handlers |-> IF back_handlers = <<>> /\ TruthyStr(bstr)
                       THEN <<BackRegexHandler>> ELSE back_handlers,
     back_str |-> bstr,
     fallback_handlers |-> fallback_handlers,
     exit_handlers |-> exit_handlers,
     allow_reentry |-> allow_reentry,
     nodes |-> nodes,
     results |-> results]

\* the attributes of the nodes that the constructors set on the root
\* (NodesHandler.__init__) and leave None on the others (Node.__init__)
InitialBackStr(c) == [n \in Nodes |-> IF n = c.root_node THEN c.back_str ELSE NoStr]
InitialBound(c) == [n \in Nodes |-> n = c.root_node]

\* callbacks: an in-node handler returns None, INSIDE_NOT_VALID or one of the
\* nodes dyn; an in-node fallback None or one of the nodes fdyn; the others None
Results(dyn, fdyn) ==
    [h \in Handlers |->
        IF h \in Range(InsideH)
        THEN {RNone, RInt(INSIDE_NOT_VALID)} \cup {RNode(d) : d \in dyn}
        ELSE IF h \in Range(FallbackH) THEN {RNone} \cup {RNode(d) : d \in fdyn}
        ELSE {RNone}]

\* a Node with the entry handler of its name, a greeting, and, when waits, two
\* in-node handlers and an in-node fallback
PlainNode(n, waits, auto_entry, switch_on_this, allow_back) ==
    Node_init([NodeDefaults EXCEPT
        !.entry_handlers = <<EntryH[n]>>,
        !.auto_entry = auto_entry,
        !.hello = Message,
        !.reply_keyboard = Keyboard(<<<<"ok", "go">>>>),
        !.inside_handlers = IF waits THEN <<InsideH[n], InsideH2[n]>> ELSE <<>>,
        !.inside_fallbacks = IF waits THEN <<FallbackH[n]>> ELSE <<>>,
        !.goodbye = IF waits THEN NoSend ELSE Message,
        !.switch_on_this = switch_on_this,
        !.allow_back = allow_back])

\* a node without handlers, greeting or successor
BareNode == Node_init(NodeDefaults)

\* root 1 -> 2 -> 3 with the flags p; 3 has no successor and no in-node
\* handlers and a closing of two messages; 4 is a leaf outside the history that in-node handlers and in-node
\* fallbacks return
ChainParams ==
    [waits1 : BOOLEAN, waits2 : BOOLEAN,
     sot1 : BOOLEAN, sot2 : BOOLEAN, sot3 : BOOLEAN,
     allow_reentry : BOOLEAN]

ChainTree(p) ==
    LET nodes == [n \in Nodes |->
            CASE n = 1 -> Node_next(PlainNode(1, p.waits1, TRUE, p.sot1, TRUE), 2)
              [] n = 2 -> Node_next(PlainNode(2, p.waits2, TRUE, p.sot2, TRUE), 3)
              [] n = 3 -> [PlainNode(3, FALSE, TRUE, p.sot3, TRUE) EXCEPT !.goodbye = Messages(2)]
              [] n = 4 -> PlainNode(4, TRUE, TRUE, FALSE, TRUE)
              [] OTHER -> BareNode]
    IN NodesHandler_init(1, EntryHandlers, <<>>, BackText, FallbackHandlers, ExitHandlers,
                         p.allow_reentry, nodes, Results({4}, {4}))

\* a NamedNode with a greeting and no in-node handlers
NamedLeaf(n, allow_back) ==
    NamedNode_init(NodeName[n], EntryH[n],
                   [NodeDefaults EXCEPT !.hello = Message, !.allow_back = allow_back])

\* root 1 is a NamedSwitchNode over the rows [2, 3], [4]: 2 and 4 are
\* NamedNodes, 2 leads to the leaf 5 and 4 back to the root; 3 has the flags p
\* and leads to next3; in-node handlers may return the root
MenuParams ==
    [waits3 : BOOLEAN, auto3 : BOOLEAN, sot3 : BOOLEAN, next3 : {None, 5},
     allow_reentry : BOOLEAN]

MenuTree(p) ==
    LET children == [n \in Nodes |->
            CASE n = 2 -> Node_next(NamedLeaf(2, FALSE), 5)
              [] n = 3 -> Node_next(PlainNode(3, p.waits3, p.auto3, p.sot3, TRUE), p.next3)
              [] n = 4 -> Node_next(NamedLeaf(4, TRUE), 1)
              [] n = 5 -> PlainNode(5, TRUE, TRUE, FALSE, TRUE)
              [] OTHER -> BareNode]
        root == NamedSwitchNode_init(NodeName[1], EntryH[1],
                    [NodeDefaults EXCEPT !.hello = Message],
                    <<<<2, 3>>, <<4>>>>, TRUE, children)
        nodes == [children EXCEPT ![1] = root]
    IN NodesHandler_init(1, EntryHandlers, <<>>, BackText, FallbackHandlers, ExitHandlers,
                         p.allow_reentry, nodes, Results({1}, {}))

\* root 1 is a NamedSwitchNode over one row of the NamedNodes 2 ("a") and 3
\* ("b"), which lead to the leaves 4 and 5; leaf 4 has the flags p, leaf 5
\* a greeting of two messages; the entry
\* handler of "a" and the in-node fallbacks may return the leaf 5
ScenarioParams == [waits4 : BOOLEAN, sot4 : BOOLEAN]

ScenarioTree(p) ==
    LET children == [n \in Nodes |->
            CASE n = 2 -> Node_next(NamedLeaf(2, TRUE), 4)
              [] n = 3 -> Node_next(NamedLeaf(3, TRUE), 5)
              [] n = 4 -> PlainNode(4, p.waits4, TRUE, p.sot4, TRUE)
              [] n = 5 -> [PlainNode(5, TRUE, TRUE, FALSE, TRUE) EXCEPT !.hello = Messages(2)]
              [] OTHER -> BareNode]
        root == NamedSwitchNode_init(NodeName[1], EntryH[1],
                    [NodeDefaults EXCEPT !.hello = Message],
                    <<<<2, 3>>>>, TRUE, children)
        nodes == [children EXCEPT ![1] = root]
    IN NodesHandler_init(1, EntryHandlers, <<>>, BackText, FallbackHandlers, ExitHandlers,
                         FALSE, nodes,
                         [Results({}, {5}) EXCEPT ![EntryH[2]] = {RNone, RNode(5)}])

\* the nodes 1, 2 and 3 wired 1 -> 2 -> 3 -> back, where back is 1 (a ring
\* through the root), 2 (a ring beside the root) or 3 (a node that is its own
\* successor); each node waits or not and has auto_entry or not, the nodes of
\* sot have switch_on_this; an in-node handler may return node 3. The trees
\* are those whose ring holds a node at which Node.handle_entry or
\* Node.handle_inside stops: on the others one update recurses until the
\* interpreter's stack is exhausted
RingParams ==
    [waits : [1..3 -> BOOLEAN], auto : [1..3 -> BOOLEAN],
     sot : {{}, {2}, {1, 2, 3}}, back : 1..3]

RingTree(p) ==
    LET nodes == [n \in Nodes |->
            IF n \in 1..3
            THEN Node_next(PlainNode(n, p.waits[n], p.auto[n], n \in p.sot, TRUE),
                           IF n = 3 THEN p.back ELSE n + 1)
            ELSE BareNode]
    IN NodesHandler_init(1, EntryHandlers, <<>>, BackText, FallbackHandlers, ExitHandlers,
                         FALSE, nodes, Results({3}, {}))

\* root 1 waits for input. With leafroot it has no successor and takes no part
\* in the history; otherwise it leads to 2, which has no in-node handlers, no
\* successor and takes no part in the history. In-node handlers and in-node
\* fallbacks may return node 4, which has the flags p. The router is given a
\* list of back handlers
LeafParams ==
    [leafroot : BOOLEAN, auto4 : BOOLEAN, sot4 : BOOLEAN, allow_reentry : BOOLEAN]

LeafTree(p) ==
    LET nodes == [n \in Nodes |->
            CASE n = 1 -> IF p.leafroot THEN PlainNode(1, TRUE, TRUE, FALSE, TRUE)
                          ELSE Node_next(PlainNode(1, TRUE, TRUE, TRUE, TRUE), 2)
              [] n = 2 -> PlainNode(2, FALSE, TRUE, FALSE, TRUE)
              [] n = 4 -> PlainNode(4, TRUE, p.auto4, p.sot4, TRUE)
              [] OTHER -> BareNode]
    IN NodesHandler_init(1, EntryHandlers, BackHandlers, BackText, FallbackHandlers,
                         ExitHandlers, p.allow_reentry, nodes, Results({4}, {4}))

\* root 1 -> 2 -> 3, where 1 waits for input and 2 has the flags p; with shared,
\* the second back handler given to the router is also its second fallback
\* handler (one handler object in both lists)
SharedParams == [waits2 : BOOLEAN, sot2 : BOOLEAN, shared : BOOLEAN, allow_reentry : BOOLEAN]

SharedTree(p) ==
    LET nodes == [n \in Nodes |->
            CASE n = 1 -> Node_next(PlainNode(1, TRUE, TRUE, TRUE, TRUE), 2)
              [] n = 2 -> Node_next(PlainNode(2, p.waits2, TRUE, p.sot2, TRUE), 3)
              [] n = 3 -> PlainNode(3, TRUE, TRUE, TRUE, TRUE)
              [] OTHER -> BareNode]
    IN NodesHandler_init(1, EntryHandlers,
                         IF p.shared THEN <<BackHandlers[1], FallbackHandlers[2]>>
                         ELSE BackHandlers,
                         BackText, FallbackHandlers, ExitHandlers,
                         p.allow_reentry, nodes, Results({}, {}))

ChainConfigs == {ChainTree(p) : p \in ChainParams}
LeafConfigs == {LeafTree(p) : p \in LeafParams}
SharedConfigs == {SharedTree(p) : p \in SharedParams}
\* the ring back..3 holds a node that has in-node handlers ("if not
\* self.inside_handlers") or has auto_entry false ("if ...auto_entry")
RingStops(p) == \E n \in p.back..3 : p.waits[n] \/ ~p.auto[n]
RingConfigs == {RingTree(p) : p \in {q \in RingParams : RingStops(q)}}
MenuConfigs == {MenuTree(p) : p \in MenuParams}
ScenarioConfigs == {ScenarioTree(p) : p \in ScenarioParams}
\* the trees one user's updates are run on. The routers of SharedConfigs are
\* run on their own (SpecShared): with a handler in two of the router's lists
\* a handling can pop the root and leave an entered session without history
Configs == ChainConfigs \cup MenuConfigs \cup ScenarioConfigs \cup LeafConfigs

-----------------------------------------------------------------------------
(* The state machine: the dispatcher asks check_update and, when it accepts, *)
(* calls handle_update, one update at a time.                                *)

NoUpdate == [user |-> 0, text |-> ""]
Update(u, text) == [user |-> u, text |-> text]

Observation(op, update, c, pre) ==
    [op |-> op, update |-> update, ret |-> c.ret, category |-> c.category,
     asked |-> c.asked, log |-> c.log, err |-> c.err, result |-> c.result, pre |-> pre]

IdleWorker == [pc |-> "idle", user |-> 0, held |-> 0]

InitCommon ==
    /\ registry = <<>>
    /\ back_str = InitialBackStr(cfg)
    /\ user_status_list = InitialBound(cfg)
    /\ next_oid = 1
    /\ inflight = NoUpdate
    /\ workers = [w \in Workers |-> IdleWorker]
    /\ last = Observation("init", NoUpdate, Context(<<>>, NoUpdate), <<>>)

\* one user sends updates to any of the trees
Init ==
    /\ cfg \in Configs
    /\ senders = {1}
    /\ texts = Events
    /\ InitCommon

\* two users send updates to one of a few trees, their updates interleaved
UsersConfigs ==
    {ChainTree([waits1 |-> TRUE, waits2 |-> w2, sot1 |-> TRUE, sot2 |-> TRUE,
                sot3 |-> TRUE, allow_reentry |-> FALSE]) : w2 \in BOOLEAN}
    \cup {MenuTree([waits3 |-> TRUE, auto3 |-> TRUE, sot3 |-> TRUE, next3 |-> None,
                    allow_reentry |-> TRUE])}
UsersTexts == {"start", "ok", "back", "n3"}

InitUsers ==
    /\ cfg \in UsersConfigs
    /\ senders \in {S \in SUBSET Users : Cardinality(S) = 2}
    /\ texts = UsersTexts
    /\ InitCommon

\* the callback whose return value the router reads: the elected handler's, or
\* the elected node's elected handler's
ReturnValues(us) ==
    IF us.current_handler.kind = "handler" THEN cfg.results[us.current_handler.h]
    ELSE IF us.current_handler.kind = "Node" /\ us.current_node_handler.kind = "handler"
    THEN cfg.results[us.current_node_handler.h]
    ELSE {RNone}

CheckUpdate(u, text) ==
    /\ inflight = NoUpdate
    /\ \E update \in {Update(u, text)} :
         \E c \in {NodesHandler_check_update(Context(registry, update), update)} :
            /\ registry' = c.reg
            /\ next_oid' = c.next_oid
            /\ inflight' = IF c.ret /\ c.err = "" THEN update ELSE NoUpdate
            /\ last' = Observation("check", update, c, registry)
    /\ UNCHANGED <<cfg, senders, texts, back_str, user_status_list, workers>>

HandleUpdate ==
    /\ inflight # NoUpdate
    /\ LET g == UserStatusList_getitem(registry, effective_user_id(inflight), next_oid)
       IN \E res \in ReturnValues(g.reg[effective_user_id(inflight)]) :
            \E c \in {NodesHandler_handle_update(Context(registry, inflight), inflight, res)} :
               /\ Len(c.reg[c.uid].nodes_history) <= MaxHist
               /\ registry' = c.reg
               /\ back_str' = c.back_str
               /\ user_status_list' = c.usl
               /\ next_oid' = c.next_oid
               /\ last' = Observation("handle", inflight, c, registry)
    /\ inflight' = NoUpdate
    /\ UNCHANGED <<cfg, senders, texts, workers>>

Next ==
    \/ \E u \in senders, text \in texts : CheckUpdate(u, text)
    \/ HandleUpdate

Spec == Init /\ [][Next]_vars

SpecUsers == InitUsers /\ [][Next]_vars

\* one user sends updates to a tree whose successor links form a cycle
RingTexts == {"start", "ok", "back", "help", "n2"}

InitRing ==
    /\ cfg \in RingConfigs
    /\ senders = {1}
    /\ texts = RingTexts
    /\ InitCommon

SpecRing == InitRing /\ [][Next]_vars

\* one user sends updates to a router given its back handlers as a list
SharedTexts == {"start", "ok", "back", "help", "n2", "n3", "zzz"}

InitShared ==
    /\ cfg \in SharedConfigs
    /\ senders = {1}
    /\ texts = SharedTexts
    /\ InitCommon

SpecShared == InitShared /\ [][Next]_vars

-----------------------------------------------------------------------------
(* Concurrent lookups: UserStatusList.__getitem__ run by several threads,   *)
(* one statement at a time. A thread that has the UserStatus returned to it *)
(* writes to it (UserStatus.enter_nodes_handler) and starts over.           *)

\* "if user_id not in self:"
GetitemContains(w, u) ==
    /\ workers[w].pc = "idle"
    /\ workers' = [workers EXCEPT ![w] =
          [pc |-> IF UserStatusList_contains(registry, u) THEN "return" ELSE "init_user",
           user |-> u, held |-> 0]]
    /\ UNCHANGED <<cfg, senders, texts, registry, back_str, user_status_list, next_oid,
                   inflight, last>>

\* "self.init_user(user_id=user_id)"
GetitemInitUser(w) ==
    /\ workers[w].pc = "init_user"
    /\ next_oid <= MaxObjects
    /\ registry' = UserStatusList_init_user(registry, workers[w].user, next_oid)
    /\ next_oid' = next_oid + 1
    /\ workers' = [workers EXCEPT ![w].pc = "return"]
    /\ UNCHANGED <<cfg, senders, texts, back_str, user_status_list, inflight, last>>

\* "return self._[user_id]"
GetitemReturn(w) ==
    /\ workers[w].pc = "return"
    /\ workers' = [workers EXCEPT ![w].pc = "holds", ![w].held = registry[workers[w].user].oid]
    /\ UNCHANGED <<cfg, senders, texts, registry, back_str, user_status_list, next_oid,
                   inflight, last>>

\* the thread writes to the object it holds; the registry shows the write only
\* when it still holds that object for the user
WriteHeld(w) ==
    /\ workers[w].pc = "holds"
    /\ registry' = IF registry[workers[w].user].oid = workers[w].held
                   THEN [registry EXCEPT ![workers[w].user].nodes_handler_entered = TRUE]
                   ELSE registry
    /\ workers' = [workers EXCEPT ![w] = IdleWorker]
    /\ UNCHANGED <<cfg, senders, texts, back_str, user_status_list, next_oid, inflight, last>>

InitConc ==
    /\ cfg \in UsersConfigs
    /\ senders = {}
    /\ texts = {}
    /\ InitCommon

NextConc ==
    \/ \E w \in Workers, u \in Users : GetitemContains(w, u)
    \/ \E w \in Workers : GetitemInitUser(w)
    \/ \E w \in Workers : GetitemReturn(w)
    \/ \E w \in Workers : WriteHeld(w)

SpecConc == InitConc /\ [][NextConc]_vars

-----------------------------------------------------------------------------
(* Properties. last.pre is the registry before the last operation, so a     *)
(* state after an operation shows what the operation did.                   *)

\* the user of the last operation, that user's session after it and before it
\* (a user not yet in the registry gets a newly constructed UserStatus)
Actor == last.update.user
After == registry[Actor]
Before == IF Actor \in DOMAIN last.pre THEN last.pre[Actor] ELSE UserStatus_init(next_oid - 1)

Checked == last.op = "check"
Handled == last.op = "handle"
\* what check_update had elected for the update that was handled
ElectedEntry == Before.current_handler.kind = "handler"
                /\ InSeq(Before.current_handler.h, cfg.entry_handlers)
ElectedBack == Before.current_handler.kind = "handler"
               /\ InSeq(Before.current_handler.h, cfg.back_handlers)
ElectedExit == Before.current_handler = LRef("exit_handlers")
ElectedNode == Before.current_handler.kind = "Node"

\* the nodes of the log entries of one kind, in order
RECURSIVE LogNodes(_, _)
LogNodes(log, kind) ==
    IF log = <<>> THEN <<>>
    ELSE (IF Head(log).kind = kind THEN <<Head(log).node>> ELSE <<>>)
         \o LogNodes(Tail(log), kind)

\* the nodes whose entry lifecycle ran, those whose inside lifecycle ran, and
\* those pushed onto the history, during the last operation
Entered == LogNodes(last.log, "entry")
Insided == LogNodes(last.log, "inside")
Pushed == LogNodes(last.log, "push")

\* ---- C1 ----
Accepting(list, text) == {i \in 1..Len(list) : text \in Accepts(list[i])}
Hits(list, text) == Accepting(list, text) # {}
\* the matchers of a list that are asked: up to the first that accepts
UpToFirst(list, text) ==
    IF Hits(list, text)
    THEN SubSeq(list, 1, CHOOSE i \in Accepting(list, text) :
                            \A j \in Accepting(list, text) : i <= j)
    ELSE list

\* the category that wins and the matchers asked, by the precedence protocol,
\* for a session s and a text
Precedence(s, text) ==
    LET try_entry == ~s.nodes_handler_entered \/ cfg.allow_reentry
        entry == IF try_entry THEN UpToFirst(cfg.entry_handlers, text) ELSE <<>>
        top == cfg.nodes[Last(s.nodes_history)]
        try_back == top.allow_back /\ Len(s.nodes_history) > 1
        back == IF try_back THEN UpToFirst(cfg.back_handlers, text) ELSE <<>>
        exit == UpToFirst(cfg.exit_handlers, text)
        node_hit == IF ~s.is_inside_current_node THEN Hits(top.entry_handlers, text)
                    ELSE Hits(top.inside_handlers, text) \/ Hits(top.inside_fallbacks, text)
        node == IF ~s.is_inside_current_node THEN UpToFirst(top.entry_handlers, text)
                ELSE IF Hits(top.inside_handlers, text)
                     THEN UpToFirst(top.inside_handlers, text)
                     ELSE top.inside_handlers \o UpToFirst(top.inside_fallbacks, text)
        fallback == UpToFirst(cfg.fallback_handlers, text)
    IN IF try_entry /\ Hits(cfg.entry_handlers, text)
       THEN [category |-> "entry", asked |-> entry]
       ELSE IF ~s.nodes_handler_entered THEN [category |-> "none", asked |-> entry]
       ELSE IF try_back /\ Hits(cfg.back_handlers, text)
       THEN [category |-> "back", asked |-> entry \o back]
       ELSE IF Hits(cfg.exit_handlers, text)
       THEN [category |-> "exit", asked |-> entry \o back \o exit]
       ELSE IF node_hit
       THEN [category |-> "node", asked |-> entry \o back \o exit \o node]
       ELSE IF Hits(cfg.fallback_handlers, text)
       THEN [category |-> "fallback", asked |-> entry \o back \o exit \o node \o fallback]
       ELSE [category |-> "none", asked |-> entry \o back \o exit \o node \o fallback]

\* C1: check_update returns true exactly when a category of the precedence
\* protocol accepts the update, the category that wins is the first one in the
\* order entry, back, exit, current node, fallback that accepts under its
\* guard, and the matchers asked are those of the categories before it and of
\* the winning list up to its first accepting matcher: no later matcher is asked
C1_Precedence ==
    Checked =>
        LET x == Precedence(Before, last.update.text)
        IN /\ last.category = x.category
           /\ last.ret = (x.category # "none")
           /\ last.asked = x.asked
           /\ last.ret => last.update.text \in Accepts(Last(last.asked))

\* an entered session inside a node got "ok": the node's first in-node matcher
\* wins over its second one and over the router's fallback, both accepting "ok"
C1_Witness ==
    /\ Checked /\ last.update.text = "ok" /\ last.category = "node"
    /\ Before.nodes_handler_entered /\ Before.is_inside_current_node
    /\ Last(last.asked) \in Range(InsideH)
    /\ Hits(cfg.fallback_handlers, "ok")

\* ---- C2 ----
\* C2: after an update elected as entry is handled, from any session state, the
\* session is entered, the history is the root followed by the nodes this
\* handling pushed (nothing of the earlier history), the root's entry
\* lifecycle ran first; a root with in-node matchers leaves history = [root],
\* displayNode = root, insideCurrentNode = true
C2_EntryResets ==
    (Handled /\ ElectedEntry) =>
        /\ After.nodes_handler_entered
        /\ After.nodes_history = <<cfg.root_node>> \o Pushed
        /\ Entered # <<>> /\ Entered[1] = cfg.root_node
        /\ cfg.nodes[cfg.root_node].inside_handlers # <<>> =>
              /\ After.nodes_history = <<cfg.root_node>>
              /\ After.display_node = cfg.root_node
              /\ After.is_inside_current_node

\* a re-entry from a history of depth 3 into a root with in-node matchers
C2_Witness ==
    /\ Handled /\ ElectedEntry
    /\ Before.nodes_handler_entered /\ Len(Before.nodes_history) = 3
    /\ cfg.nodes[cfg.root_node].inside_handlers # <<>>
    /\ After.nodes_history = <<cfg.root_node>>

Front(h) == SubSeq(h, 1, Len(h) - 1)
AllParticipate(h) == \A i \in 1..Len(h) : cfg.nodes[h[i]].switch_on_this

\* C3 as claimed: from a history of history-participating nodes, every back
\* update that is handled pops the history, sets displayNode to the new top
\* and leaves the session inside that node
C3_BackInverse_Claimed ==
    (Handled /\ ElectedBack /\ AllParticipate(Before.nodes_history)) =>
        /\ After.nodes_history = Front(Before.nodes_history)
        /\ After.display_node = Last(After.nodes_history)
        /\ After.is_inside_current_node

\* C3 (amended): back is elected only at a depth above 1; handling it pops the
\* history and runs the entry lifecycle of the new top first; when the new top
\* has in-node matchers the history is exactly the old one without its top,
\* displayNode is the new top and the session is inside it
C3_BackInverse ==
    /\ (Checked /\ last.category = "back") => Len(Before.nodes_history) > 1
    /\ (Handled /\ ElectedBack) =>
          /\ Len(Before.nodes_history) > 1
          /\ Entered # <<>> /\ Entered[1] = Last(Front(Before.nodes_history))
          /\ After.nodes_history = Front(Before.nodes_history) \o Pushed
          /\ cfg.nodes[Last(Front(Before.nodes_history))].inside_handlers # <<>> =>
                /\ After.nodes_history = Front(Before.nodes_history)
                /\ After.display_node = Last(After.nodes_history)
                /\ After.is_inside_current_node

\* the second back after root -> 2 -> 3: from [root, 2] back to [root]
C3_Witness ==
    /\ Handled /\ ElectedBack
    /\ Len(Before.nodes_history) = 2 /\ AllParticipate(Before.nodes_history)
    /\ After.nodes_history = <<cfg.root_node>>
    /\ After.display_node = cfg.root_node /\ After.is_inside_current_node
    /\ cfg.nodes[1].next_node = 2 /\ cfg.nodes[2].next_node = 3

\* ---- C4 ----
\* C4 as claimed: handling an update elected by an exit matcher runs the exit
\* handler, leaves the session not entered and touches neither the history nor
\* displayNode nor insideCurrentNode
C4_ExitLeaves_Claimed ==
    (Handled /\ ElectedExit) =>
        /\ last.err = ""
        /\ \E i \in 1..Len(last.log) :
              last.log[i].kind = "callback" /\ InSeq(last.log[i].h, cfg.exit_handlers)
        /\ ~After.nodes_handler_entered
        /\ After.nodes_history = Before.nodes_history
        /\ After.display_node = Before.display_node
        /\ After.is_inside_current_node = Before.is_inside_current_node

\* ---- C10 ----
\* the chain of the last handling ended at a terminal leaf: every node entered
\* ran its inside lifecycle and the last one stayed the displayed node
EndsAtLeaf ==
    /\ Entered # <<>>
    /\ Insided = Entered
    /\ After.display_node = Last(Entered)

\* the last node of a chain that satisfies P(i, chain[i]); None if there is none
LastWith(chain, P(_, _)) ==
    LET idx == {i \in 1..Len(chain) : P(i, chain[i])}
    IN IF idx = {} THEN None ELSE chain[CHOOSE i \in idx : \A j \in idx : j <= i]

\* C10 as claimed: after entry and the auto-entry transitions to a terminal
\* leaf, the history top is the last chain node with switch_on_this and no
\* chain node without switch_on_this, the root included, is in the history
C10_ChainHistory_Claimed ==
    (Handled /\ ElectedEntry /\ EndsAtLeaf) =>
        LET sot(i, n) == cfg.nodes[n].switch_on_this
        IN /\ NodesHistory_current(After.nodes_history) = LastWith(Entered, sot)
           /\ \A i \in 1..Len(Entered) :
                 ~cfg.nodes[Entered[i]].switch_on_this
                    => ~InSeq(Entered[i], After.nodes_history)

\* C10 (amended): the root is the bottom of the history whatever its flag
\* and the history is the root followed by exactly the nodes entered after it
\* that have switch_on_this, in that order; so the history top is the last
\* chain node that has switch_on_this or, when none after the root has it,
\* the root
C10_ChainHistory ==
    (Handled /\ ElectedEntry /\ EndsAtLeaf) =>
        LET kept(i, n) == i = 1 \/ cfg.nodes[n].switch_on_this
            sot(n) == cfg.nodes[n].switch_on_this
        IN /\ Entered[1] = cfg.root_node
           /\ After.nodes_history = <<cfg.root_node>> \o SelectSeq(Tail(Entered), sot)
           /\ NodesHistory_current(After.nodes_history) = LastWith(Entered, kept)

\* entry ran through root, 2 and the leaf 3, where only 2 has switch_on_this
C10_Witness ==
    /\ Handled /\ ElectedEntry /\ EndsAtLeaf
    /\ Entered = <<1, 2, 3>>
    /\ ~cfg.nodes[1].switch_on_this /\ cfg.nodes[2].switch_on_this
    /\ ~cfg.nodes[3].switch_on_this
    /\ After.nodes_history = <<1, 2>>

\* ---- C7 ----
SameNavigation(a, b) ==
    /\ a.nodes_handler_entered = b.nodes_handler_entered
    /\ a.nodes_history = b.nodes_history
    /\ a.display_node = b.display_node
    /\ a.is_inside_current_node = b.is_inside_current_node
    /\ a.next_node = b.next_node

\* C7: with lookups one after the other, as many UserStatus objects have been
\* constructed as there are users in the registry, no two users share one,
\* every user keeps the object it had before the last operation, the first
\* lookup of a user gives a new session (not entered, empty history, not
\* inside, no pending next node), and a later lookup resets nothing
C7_OneSessionPerUser ==
    /\ next_oid - 1 = Cardinality(DOMAIN registry)
    /\ \A u, v \in DOMAIN registry : u # v => registry[u].oid # registry[v].oid
    /\ \A v \in DOMAIN last.pre :
          v \in DOMAIN registry /\ registry[v].oid = last.pre[v].oid
    /\ (last.op # "init" /\ Actor \notin DOMAIN last.pre) =>
          /\ Checked
          /\ SameNavigation(After, UserStatus_init(0))
    /\ (Checked /\ Actor \in DOMAIN last.pre) => SameNavigation(After, Before)

\* a user with a history of depth 2 is looked up again while a second user is
\* in the registry
C7_Witness ==
    /\ Checked /\ Actor \in DOMAIN last.pre
    /\ Cardinality(DOMAIN registry) = 2
    /\ Before.nodes_handler_entered /\ Len(Before.nodes_history) = 2
    /\ After.oid = Before.oid

\* ---- C8 ----
\* C8 as claimed: threads that hold the UserStatus of the same user hold the
\* same object, and the object a thread holds is the one the registry has for
\* that user
C8_AtomicInsert_Claimed ==
    /\ \A w1, w2 \in Workers :
          (workers[w1].pc = "holds" /\ workers[w2].pc = "holds"
             /\ workers[w1].user = workers[w2].user)
          => workers[w1].held = workers[w2].held
    /\ \A w \in Workers :
          workers[w].pc = "holds" => registry[workers[w].user].oid = workers[w].held

\* ---- C9 ----
\* C9: an operation for one user's update leaves the session of every other
\* user as it was
C9_OtherUsersUnchanged ==
    last.op # "init" =>
        \A v \in (DOMAIN registry \cup DOMAIN last.pre) \ {Actor} :
            /\ v \in DOMAIN registry /\ v \in DOMAIN last.pre
            /\ registry[v] = last.pre[v]

\* a handling changed the history of its user while another user was entered
\* with a history of depth 2
C9_Witness ==
    /\ Handled
    /\ After.nodes_history # Before.nodes_history
    /\ \E v \in DOMAIN registry \ {Actor} :
          /\ registry[v].nodes_handler_entered
          /\ Len(registry[v].nodes_history) = 2
          /\ registry[v].nodes_history # After.nodes_history

\* ---- C11 ----
Count(seq, x) == Cardinality({i \in 1..Len(seq) : seq[i] = x})
Hellos == LogNodes(last.log, "hello")
\* the node that was elected for the update handled last
ElectedNodeId == Before.current_handler.n
\* the child a SwitchNode routes the handled update to
RoutedTo ==
    LET sn == cfg.nodes[ElectedNodeId].switch_nodes
        idx == {i \in 1..Len(sn) : Before.current_node_handler.kind = "handler"
                  /\ InSeq(Before.current_node_handler.h, cfg.nodes[sn[i]].entry_handlers)}
    IN IF idx = {} THEN None ELSE sn[CHOOSE i \in idx : \A j \in idx : i <= j]
\* a SwitchNode the session is inside of had the update accepted by the entry
\* matcher of one of its children, and handled it
MenuRouted ==
    /\ Handled /\ ElectedNode /\ last.err = ""
    /\ cfg.nodes[ElectedNodeId].switch_nodes # <<>>
    /\ Before.is_inside_current_node
    /\ RoutedTo # None
    /\ last.result # RInt(INSIDE_NOT_VALID)

\* C11 as claimed: whatever the child Y is, after the handling displayNode is Y
\* and Y's entry lifecycle has run exactly once, its greeting sent exactly once
C11_MenuRouting_Claimed ==
    MenuRouted =>
        /\ After.display_node = RoutedTo
        /\ Count(Entered, RoutedTo) = 1
        /\ Count(Hellos, RoutedTo) = SendCount(cfg.nodes[RoutedTo].hello)

\* C11 (amended): the SwitchNode's inside lifecycle runs first and makes Y the
\* next node. With auto_entry, Y's entry lifecycle is the first one run and
\* runs exactly once, its greeting sent exactly once; if Y has in-node
\* matchers displayNode is Y and the session is inside it, otherwise Y's inside
\* lifecycle runs at once and displayNode stays Y only if Y has no successor.
\* Without auto_entry no entry lifecycle runs: displayNode is Y, not inside.
C11_MenuRouting ==
    MenuRouted =>
        LET Y == cfg.nodes[RoutedTo] IN
        /\ Insided # <<>> /\ Insided[1] = ElectedNodeId
        /\ Y.auto_entry =>
              /\ Entered # <<>> /\ Entered[1] = RoutedTo
              /\ Count(Entered, RoutedTo) = 1
              /\ Count(Hellos, RoutedTo) = SendCount(Y.hello)
        /\ (Y.auto_entry /\ Y.inside_handlers # <<>>) =>
              /\ After.display_node = RoutedTo
              /\ After.is_inside_current_node
              /\ Entered = <<RoutedTo>>
        /\ (Y.auto_entry /\ Y.inside_handlers = <<>>) =>
              /\ Len(Insided) >= 2 /\ Insided[2] = RoutedTo
              /\ Y.next_node = None => After.display_node = RoutedTo
              /\ (Y.next_node # None /\ Y.next_node # RoutedTo)
                    => After.display_node # RoutedTo
        /\ ~Y.auto_entry =>
              /\ Entered = <<>>
              /\ After.display_node = RoutedTo
              /\ ~After.is_inside_current_node

\* the menu routed "n3" to its second child, which waits for input
C11_Witness ==
    /\ MenuRouted /\ RoutedTo = 3 /\ last.update.text = "n3"
    /\ cfg.nodes[1].switch_nodes = <<2, 3, 4>>
    /\ cfg.nodes[3].auto_entry /\ cfg.nodes[3].inside_handlers # <<>>
    /\ After.display_node = 3 /\ After.is_inside_current_node
    /\ Count(Hellos, 3) = 1

\* ---- C12 ----
\* the greetings sent by the last operation, with their keyboards
HelloEntries == SelectSeq(last.log, LAMBDA e : e.kind = "hello")
\* in the scenario tree, after entry and "a" (the session is at leafA, node 4,
\* reached through "a", node 2, nothing pending), the back string has been handled
ScenarioBack ==
    /\ cfg \in ScenarioConfigs
    /\ Handled /\ ElectedBack /\ last.update.text = BackText
    /\ Before.display_node = 4
    /\ Before.nodes_history \in {<<1, 2>>, <<1, 2, 4>>}
    /\ Before.next_node = None
\* the menu's greeting with the keyboard of the children's names, no back button
MenuRedisplayed ==
    /\ HelloEntries # <<>>
    /\ Last(HelloEntries).node = 1
    /\ Last(HelloEntries).markup = [type |-> "reply", rows |-> <<<<NodeName[2], NodeName[3]>>>>]

\* C12 as claimed: after entry, "a" and the back string, displayNode is the
\* menu, the history has depth 1 and the menu keyboard is shown again without
\* a back button
C12_ScenarioBack_Claimed ==
    ScenarioBack =>
        /\ After.display_node = 1
        /\ Len(After.nodes_history) = 1
        /\ MenuRedisplayed

\* C12 (amended): that outcome is reached when leafA does not take part in the
\* history (history [menu, a] before back); when leafA has switch_on_this the
\* history is [menu, a, leafA] before back, back pops to "a", whose entry
\* lifecycle advances to leafA again: the history is [menu, a, leafA] and
\* displayNode is leafA afterwards, and the menu is not shown
C12_ScenarioBack ==
    ScenarioBack =>
        /\ ~cfg.nodes[4].switch_on_this =>
              /\ Before.nodes_history = <<1, 2>>
              /\ After.display_node = 1
              /\ After.nodes_history = <<1>>
              /\ After.is_inside_current_node
              /\ MenuRedisplayed
        /\ cfg.nodes[4].switch_on_this =>
              /\ Before.nodes_history = <<1, 2, 4>>
              /\ After.display_node = 4
              /\ After.nodes_history = <<1, 2, 4>>
              /\ Entered = <<2, 4>>
              /\ Count(Hellos, 1) = 0

\* back from a leafA outside the history brought the menu back
C12_Witness ==
    /\ ScenarioBack /\ ~cfg.nodes[4].switch_on_this
    /\ After.display_node = 1 /\ After.nodes_history = <<1>>
    /\ MenuRedisplayed

\* ---- C13 ----
\* a node without successor that takes no part in the history
TerminalLeaf(n) ==
    n # None /\ cfg.nodes[n].next_node = None /\ ~cfg.nodes[n].switch_on_this
InNodeMatchers(n) == Range(cfg.nodes[n].inside_handlers) \cup Range(cfg.nodes[n].inside_fallbacks)
\* the session s displays a terminal leaf that is not the history top, inside
AtLeaf(s) ==
    /\ s.nodes_handler_entered
    /\ TerminalLeaf(s.display_node)
    /\ s.is_inside_current_node
    /\ s.display_node # Last(s.nodes_history)

\* C13 as claimed: with a terminal leaf outside the history displayed, an
\* update accepted at node level is accepted by the leaf's own in-node
\* matchers, and handling it ends inside the leaf with the history unchanged
C13_LeafIdempotent_Claimed ==
    /\ (Checked /\ AtLeaf(Before) /\ last.category = "node") =>
          After.current_node_handler.h \in InNodeMatchers(Before.display_node)
    /\ (Handled /\ ElectedNode /\ AtLeaf(Before) /\ last.err = "") =>
          /\ After.display_node = Before.display_node
          /\ After.is_inside_current_node
          /\ After.nodes_history = Before.nodes_history

\* the session s displays, inside, a terminal leaf that is the history top
AtTopLeaf(s) ==
    /\ s.nodes_handler_entered
    /\ TerminalLeaf(s.display_node)
    /\ s.is_inside_current_node
    /\ s.nodes_history # <<>> /\ s.display_node = Last(s.nodes_history)
\* the child a SwitchNode n routes the handled update to, None for other nodes
RoutedBy(n) ==
    LET sn == cfg.nodes[n].switch_nodes
        idx == {i \in 1..Len(sn) : Before.current_node_handler.kind = "handler"
                  /\ InSeq(Before.current_node_handler.h, cfg.nodes[sn[i]].entry_handlers)}
    IN IF idx = {} THEN None ELSE sn[CHOOSE i \in idx : \A j \in idx : i <= j]
\* the next node that is pending when the first inside lifecycle of the last
\* handling runs: the routed child, else the node the elected node's handler
\* returned, else the one left pending before the handling
PendingAtFirstInside ==
    IF RoutedBy(Insided[1]) # None THEN RoutedBy(Insided[1])
    ELSE IF ElectedNode /\ last.result.kind = "Node" THEN last.result.val
    ELSE Before.next_node
\* the one pending when the last inside lifecycle runs: every inside lifecycle
\* clears the field
PendingAtLastInside == IF Len(Insided) = 1 THEN PendingAtFirstInside ELSE None
\* the positions in the log of the first and the last inside lifecycle
InsideIndexes == {i \in 1..Len(last.log) : last.log[i].kind = "inside"}
FirstInsideIndex == CHOOSE i \in InsideIndexes : \A j \in InsideIndexes : i <= j
LastInsideIndex == CHOOSE i \in InsideIndexes : \A j \in InsideIndexes : j <= i
\* the nodes whose entry lifecycle ran after position i of the log
EnteredAfter(i) == LogNodes(SubSeq(last.log, i + 1, Len(last.log)), "entry")

\* C13 (amended):
\* (1) when the inside lifecycle of a node without successor and outside the
\* history runs with no next node pending, the handling ends there: no entry
\* lifecycle follows, the session is marked inside again, nothing is pending
\* and the node was not pushed;
\* (2) when a next node is pending, that lifecycle moves to it instead:
\* with auto_entry its entry lifecycle runs next, without auto_entry it is
\* made the displayNode and the session is left not inside;
\* (3) while such a leaf is displayed without being the history top, updates
\* are matched against the history top, never against the leaf's in-node
\* matchers: an update accepted at node level elects the top and one of the
\* top's in-node matchers, and handling it runs the top's lifecycle (its
\* inside lifecycle or, on a fallback or INSIDE_NOT_VALID, the leaf's entry
\* lifecycle again, which with no next node pending or returned leaves the
\* history and displayNode unchanged and the session inside);
\* (4) when the leaf is the history top (the root), updates are matched
\* against its own in-node matchers and every handling with no next node
\* pending or returned ends inside the leaf, displayNode and history unchanged
C13_LeafIdempotent ==
    /\ (Handled /\ last.err = "" /\ Insided # <<>>
          /\ TerminalLeaf(Last(Insided)) /\ PendingAtLastInside = None) =>
          /\ EnteredAfter(LastInsideIndex) = <<>>
          /\ After.is_inside_current_node
          /\ After.next_node = None
          /\ ~InSeq(Last(Insided), Pushed)
    /\ (Handled /\ last.err = "" /\ Insided # <<>>
          /\ TerminalLeaf(Insided[1]) /\ PendingAtFirstInside # None) =>
          LET P == PendingAtFirstInside
          IN /\ cfg.nodes[P].switch_on_this <=> (Pushed # <<>> /\ Pushed[1] = P)
             /\ IF cfg.nodes[P].auto_entry
                THEN /\ EnteredAfter(FirstInsideIndex) # <<>>
                     /\ EnteredAfter(FirstInsideIndex)[1] = P
                ELSE /\ EnteredAfter(FirstInsideIndex) = <<>>
                     /\ Insided = <<Insided[1]>>
                     /\ After.display_node = P
                     /\ ~After.is_inside_current_node
                     /\ After.next_node = None
    /\ (Checked /\ AtLeaf(Before)) =>
          /\ Range(last.asked) \cap InNodeMatchers(Before.display_node) = {}
          /\ last.category = "node" =>
                /\ After.current_handler = NRef(Last(Before.nodes_history))
                /\ After.current_node_handler.h \in InNodeMatchers(Last(Before.nodes_history))
    /\ (Handled /\ ElectedNode /\ AtLeaf(Before) /\ last.err = "") =>
          LET top == Last(Before.nodes_history)
              h == Before.current_node_handler.h
          IN /\ ElectedNodeId = top
             /\ last.log[2] = LogEntry("callback", top, h, NoMarkup)
             /\ IF last.result = RInt(INSIDE_NOT_VALID)
                   \/ InSeq(h, cfg.nodes[top].inside_fallbacks)
                THEN /\ Entered # <<>> /\ Entered[1] = Before.display_node
                     /\ (Before.next_node = None /\ last.result.kind # "Node") =>
                           /\ After.nodes_history = Before.nodes_history
                           /\ After.display_node = Before.display_node
                           /\ After.is_inside_current_node
                ELSE Insided # <<>> /\ Insided[1] = top
    /\ (Checked /\ AtTopLeaf(Before) /\ last.category = "node") =>
          /\ After.current_handler = NRef(Before.display_node)
          /\ After.current_node_handler.h \in InNodeMatchers(Before.display_node)
    /\ (Handled /\ AtTopLeaf(Before) /\ last.err = ""
          /\ Before.next_node = None /\ last.result.kind # "Node") =>
          /\ After.display_node = Before.display_node
          /\ After.is_inside_current_node
          /\ After.nodes_history = Before.nodes_history

\* the leaf 4, which has in-node matchers, is displayed with [1, 2] as the
\* history; "ok" has been accepted by node 2's matcher and handled by node 2,
\* which moved on to its successor 3
C13_Witness ==
    /\ Handled /\ ElectedNode /\ AtLeaf(Before) /\ last.err = ""
    /\ Before.display_node = 4 /\ Before.nodes_history = <<1, 2>>
    /\ cfg.nodes[4].inside_handlers # <<>>
    /\ Before.current_node_handler = HRef(InsideH[2])
    /\ last.result = RNone
    /\ After.display_node = 3

\* ---- C14 ----
\* the handling ran an in-node handler of the elected node that did not return
\* INSIDE_NOT_VALID, so the node's inside lifecycle ran
InsideTransition ==
    /\ Handled /\ ElectedNode /\ last.err = ""
    /\ Before.current_node_handler.kind = "handler"
    /\ InSeq(Before.current_node_handler.h, cfg.nodes[ElectedNodeId].inside_handlers)
    /\ ~InSeq(Before.current_node_handler.h, cfg.nodes[ElectedNodeId].inside_fallbacks)
    /\ last.result # RInt(INSIDE_NOT_VALID)
\* the inside lifecycle moved to node n: n was made the displayNode and, with
\* auto_entry, its entry lifecycle was the first to run
MovedTo(n) ==
    IF cfg.nodes[n].auto_entry THEN Entered # <<>> /\ Entered[1] = n
    ELSE Entered = <<>> /\ After.display_node = n

\* C14 as claimed: an override returned by the node's handler decides the next
\* node whatever the node is, and after a handling in which an inside
\* lifecycle ran nothing is pending
C14_Override_Claimed ==
    /\ (InsideTransition /\ last.result.kind = "Node") => MovedTo(last.result.val)
    /\ (Handled /\ last.err = "" /\ Insided # <<>>) => After.next_node = None

\* C14 (amended): the next node of the inside lifecycle of the elected node is
\* the child a SwitchNode routes to, else the pending next node (the one the
\* handler returned or one left pending earlier), else the static successor;
\* at the end of a handling in which an inside lifecycle ran nothing is
\* pending; a returned node stays pending when no inside lifecycle ran
C14_Override ==
    /\ InsideTransition =>
          LET pend == IF last.result.kind = "Node" THEN last.result.val
                      ELSE Before.next_node
              exp == IF RoutedTo # None THEN RoutedTo
                     ELSE IF pend # None THEN pend
                     ELSE cfg.nodes[ElectedNodeId].next_node
          IN /\ Insided # <<>> /\ Insided[1] = ElectedNodeId
             /\ exp # None => MovedTo(exp)
    /\ (Handled /\ last.err = "" /\ Insided # <<>>) => After.next_node = None
    /\ (Handled /\ ElectedNode /\ last.err = "" /\ Insided = <<>>) =>
          After.next_node = IF last.result.kind = "Node" THEN last.result.val
                            ELSE Before.next_node

\* node 1 of the chain, whose static successor is 2, had its handler return
\* the leaf 4: the session moved to 4 and nothing is pending
C14_Witness ==
    /\ InsideTransition /\ ElectedNodeId = 1
    /\ cfg.nodes[1].next_node = 2
    /\ last.result = RNode(4)
    /\ Entered = <<4>> /\ After.display_node = 4
    /\ After.next_node = None

\* ---- C15 ----
\* C15: check_update leaves entered, history, displayNode, insideCurrentNode
\* and the pending next node of the session as they were, whatever it returns;
\* when it returns false it writes nothing at all to a session that existed,
\* and no handling follows
C15_CheckKeepsNavigation ==
    Checked =>
        /\ SameNavigation(After, Before)
        /\ ~last.ret =>
              /\ inflight = NoUpdate
              /\ Actor \in DOMAIN last.pre => After = Before
        /\ After.oid = Before.oid

\* an update that matches nothing was refused, after the router's and the
\* node's matchers were asked, for a session parked inside a node at depth 2
C15_Witness ==
    /\ Checked /\ ~last.ret /\ last.update.text = "zzz"
    /\ Before.nodes_handler_entered /\ Before.is_inside_current_node
    /\ Len(Before.nodes_history) = 2
    /\ Len(last.asked) > 3
    /\ After = Before

\* ---- C16 ----
\* C16 as claimed: no operation ends with the IndexError of a pop from a
\* history of depth 1 or less; an update elected as back and awaiting its
\* handling belongs to a session whose history is deeper than 1, and every
\* handling that takes the back branch starts from such a history and leaves
\* a history that is not empty
C16_BackGuarded_Claimed ==
    /\ last.err # "IndexError"
    /\ (Checked /\ last.category = "back") =>
          inflight = last.update /\ Len(After.nodes_history) > 1
    /\ (Handled /\ ElectedBack) =>
          /\ Len(Before.nodes_history) > 1
          /\ After.nodes_history # <<>>
          /\ Len(After.nodes_history) >= Len(Before.nodes_history) - 1

\* ---- C17 ----
\* the node the inside lifecycle of the elected node moved to, and whether it
\* was chosen through the pending field (a SwitchNode's child, a node returned
\* by the handler or left pending earlier) rather than as the static successor
PendingAtInside ==
    IF RoutedTo # None THEN RoutedTo
    ELSE IF last.result.kind = "Node" THEN last.result.val
    ELSE Before.next_node
TransitionTarget ==
    IF PendingAtInside # None THEN PendingAtInside ELSE cfg.nodes[ElectedNodeId].next_node
\* the entry-handler callback of n was run right before the first entry lifecycle
FirstEntryIndex ==
    CHOOSE i \in 1..Len(last.log) :
        /\ last.log[i].kind = "entry"
        /\ \A j \in 1..(i - 1) : last.log[j].kind # "entry"
CallbackBeforeEntry(n) ==
    /\ FirstEntryIndex > 1
    /\ last.log[FirstEntryIndex - 1].kind = "callback"
    /\ last.log[FirstEntryIndex - 1].node = n

\* C17 as claimed: when an inside lifecycle moves to an auto-entry next node
\* that has an entry handler, the handler's callback is run exactly when the
\* next node is the static successor, not one chosen through the pending field
C17_EntryCallback_Claimed ==
    (InsideTransition /\ TransitionTarget # None
        /\ cfg.nodes[TransitionTarget].auto_entry
        /\ cfg.nodes[TransitionTarget].entry_handlers # <<>>) =>
        (CallbackBeforeEntry(TransitionTarget) <=> PendingAtInside = None)

\* ---- C18 ----
\* the handler elected in the elected node returned INSIDE_NOT_VALID or is one
\* of the node's in-node fallbacks, and the update was handled
StayInPlace ==
    /\ Handled /\ ElectedNode /\ last.err = ""
    /\ Before.current_node_handler.kind = "handler"
    /\ \/ last.result = RInt(INSIDE_NOT_VALID)
       \/ InSeq(Before.current_node_handler.h, cfg.nodes[ElectedNodeId].inside_fallbacks)

\* C18 as claimed: the history and displayNode are unchanged, the session is
\* inside, the displayNode's entry lifecycle ran once, its greeting sent once
C18_StayInPlace_Claimed ==
    StayInPlace =>
        /\ After.nodes_history = Before.nodes_history
        /\ After.display_node = Before.display_node
        /\ After.is_inside_current_node
        /\ Entered = <<Before.display_node>>
        /\ Count(Hellos, Before.display_node) = SendCount(cfg.nodes[Before.display_node].hello)

\* C18 (amended): the displayNode's entry-handler callback and entry lifecycle
\* run first, its greeting sent again. When the displayNode has in-node
\* matchers nothing else happens: history and displayNode are unchanged, the
\* session is inside, and a node the handler returned stays pending. When it
\* has none, its inside lifecycle runs at once: with no pending and no static
\* next node, history and displayNode are unchanged; otherwise the session
\* moves to that next node
C18_StayInPlace ==
    StayInPlace =>
        LET D == Before.display_node
            pend == IF last.result.kind = "Node" THEN last.result.val ELSE Before.next_node
            nextD == IF pend # None THEN pend ELSE cfg.nodes[D].next_node
        IN /\ Entered # <<>> /\ Entered[1] = D
           /\ cfg.nodes[D].entry_handlers # <<>> =>
                 last.log[3] = LogEntry("callback", D, cfg.nodes[D].entry_handlers[1], NoMarkup)
           /\ Count(Hellos, D) >= SendCount(cfg.nodes[D].hello)
           /\ cfg.nodes[D].inside_handlers # <<>> =>
                 /\ Entered = <<D>> /\ Insided = <<>>
                 /\ Count(Hellos, D) = SendCount(cfg.nodes[D].hello)
                 /\ After.nodes_history = Before.nodes_history
                 /\ After.display_node = D
                 /\ After.is_inside_current_node
                 /\ After.next_node = pend
           /\ cfg.nodes[D].inside_handlers = <<>> =>
                 /\ Insided # <<>> /\ Insided[1] = D
                 /\ After.next_node = None
                 /\ nextD = None =>
                       /\ After.nodes_history = Before.nodes_history
                       /\ After.display_node = D
                       /\ After.is_inside_current_node = ~cfg.nodes[D].switch_on_this
                 /\ nextD # None =>
                       IF cfg.nodes[nextD].auto_entry
                       THEN Len(Entered) >= 2 /\ Entered[2] = nextD
                       ELSE After.display_node = nextD

\* node 2, displayed and waiting at depth 2, had its handler return
\* INSIDE_NOT_VALID: its greeting was sent again and nothing else changed
C18_Witness ==
    /\ StayInPlace /\ last.result = RInt(INSIDE_NOT_VALID)
    /\ ElectedNodeId = 2 /\ Before.display_node = 2
    /\ Before.nodes_history = <<1, 2>>
    /\ Entered = <<2>> /\ Count(Hellos, 2) = 1
    /\ After.nodes_history = <<1, 2>> /\ After.display_node = 2
    /\ After.is_inside_current_node

\* ---- C19 ----
\* the node that check_update asks: the history top of an entered session
AskedNode == cfg.nodes[Last(Before.nodes_history)]

\* C19: when the history top is asked while the session is not inside, only
\* its entry matchers are asked and only one of them can be elected; while
\* inside, none of its entry matchers is asked, and the elected handler is an
\* in-node matcher or, only when no in-node matcher accepts the update, an
\* in-node fallback
C19_InsideGate ==
    (Checked /\ Before.nodes_handler_entered /\ last.err = "") =>
        LET h == After.current_node_handler.h
            text == last.update.text
            asked == Range(last.asked)
        IN /\ ~Before.is_inside_current_node =>
                 /\ asked \cap Range(AskedNode.inside_handlers) = {}
                 /\ asked \cap Range(AskedNode.inside_fallbacks) = {}
                 /\ last.category = "node" =>
                       /\ InSeq(h, AskedNode.entry_handlers)
                       /\ text \in Accepts(h)
           /\ Before.is_inside_current_node =>
                 /\ asked \cap Range(AskedNode.entry_handlers) = {}
                 /\ last.category = "node" =>
                       /\ text \in Accepts(h)
                       /\ \/ InSeq(h, AskedNode.inside_handlers)
                          \/ /\ InSeq(h, AskedNode.inside_fallbacks)
                             /\ ~Hits(AskedNode.inside_handlers, text)
                             /\ Range(AskedNode.inside_handlers) \subseteq asked

\* the history top has in-node matchers, the session is not inside it and its
\* entry matcher was elected
C19_Witness ==
    /\ Checked /\ Before.nodes_handler_entered /\ last.category = "node"
    /\ ~Before.is_inside_current_node
    /\ AskedNode.inside_handlers # <<>>
    /\ InSeq(After.current_node_handler.h, AskedNode.entry_handlers)

\* ---- C20 ----
\* C20 as claimed: every attribute of every node is as it was after the tree
\* and the router were constructed
C20_NodesImmutable_Claimed ==
    /\ back_str = InitialBackStr(cfg)
    /\ user_status_list = InitialBound(cfg)

\* C20 (amended): no step changes the successor, the flags or the matcher
\* lists of a node; a node's back string changes only in a handling that
\* pushes the node onto a history, to the router's back string; a node's
\* registry binding, once set, stays set, and is set only by a handling
C20_NodesFrame ==
    [][/\ cfg' = cfg
       /\ \A n \in Nodes :
             /\ back_str'[n] # back_str[n] =>
                   /\ back_str'[n] = cfg.back_str
                   /\ last'.op = "handle" /\ InSeq(n, LogNodes(last'.log, "push"))
             /\ user_status_list[n] => user_status_list'[n]
             /\ user_status_list'[n] # user_status_list[n] => last'.op = "handle"]_vars

\* node 2, constructed without back string and registry binding, has been
\* pushed by a handling and now holds the router's back string and registry
C20_Witness ==
    /\ Handled /\ InSeq(2, Pushed)
    /\ InitialBackStr(cfg)[2] = NoStr /\ back_str[2] = cfg.back_str
    /\ ~InitialBound(cfg)[2] /\ user_status_list[2]
    /\ cfg.back_str = BackText

\* ---- C21 ----
\* the node displayed to the user of the last operation and the top of the
\* history of that user
Displayed == After.display_node
Top == NodesHistory_current(After.nodes_history)

\* C21: after every completed handle_update of an entered session, a
\* displayNode that has switch_on_this is the top of the history; so
\* displayNode differs from the top only when it is a node that does not
\* participate in the history
C21_DisplayIsTop ==
    (Handled /\ last.err = "" /\ After.nodes_handler_entered) =>
        /\ Displayed # None /\ Top # None
        /\ cfg.nodes[Displayed].switch_on_this => Displayed = Top
        /\ Displayed # Top => ~cfg.nodes[Displayed].switch_on_this

\* a handling has moved the session from a history top that has
\* switch_on_this to a displayNode without it, which is not pushed
C21_Witness ==
    /\ Handled /\ last.err = "" /\ After.nodes_handler_entered
    /\ Displayed # Top /\ ~cfg.nodes[Displayed].switch_on_this
    /\ cfg.nodes[Top].switch_on_this /\ Len(After.nodes_history) > 1
    /\ InSeq(Displayed, Entered) /\ InSeq(Top, Pushed)

\* ---- C22 ----
\* a node that neither waits for input nor has auto_entry false: the recursion
\* that enters it through a link goes on to its successor
PassesThrough(n) == cfg.nodes[n].inside_handlers = <<>> /\ cfg.nodes[n].auto_entry

\* the node k successor links after n, None when the links end before
RECURSIVE SuccessorAt(_, _)
SuccessorAt(n, k) ==
    IF n = None \/ k = 0 THEN n ELSE SuccessorAt(cfg.nodes[n].next_node, k - 1)

OnCycle(n) == \E k \in 1..Cardinality(Nodes) : SuccessorAt(n, k) = n
CycleOf(n) == {SuccessorAt(n, k) : k \in 1..Cardinality(Nodes)}

\* each cycle of successor links contains a node that has in-node matchers or
\* has auto_entry false
CyclesBroken == \A n \in Nodes : OnCycle(n) => \E m \in CycleOf(n) : ~PassesThrough(m)

\* the nodes a transition can lead to: the successors, the children of the
\* switch nodes and the nodes the callbacks return
LinkTargets ==
    ({cfg.nodes[n].next_node : n \in Nodes} \ {None})
    \cup UNION {Range(cfg.nodes[n].switch_nodes) : n \in Nodes}
    \cup {r.val : r \in {x \in UNION {cfg.results[h] : h \in Handlers} : x.kind = "Node"}}

\* the entry and inside lifecycles run by the last operation, in order
LifecycleSteps == SelectSeq(last.log, LAMBDA e : e.kind \in {"entry", "inside"})

\* C22: with every cycle of successor links broken by a node that has in-node
\* matchers or has auto_entry false, the recursion of entry and inside
\* lifecycles started by one handle_update ends without exhausting the stack,
\* has entered the node it started at and then each node a link leads to at
\* most once, has pushed at most as many nodes as links lead to, and ends at
\* an entered node that waits for input, or at a node without next node, or
\* at a next node that has auto_entry false and is left to wait for its entry
\* matcher
C22_Terminates ==
    (Handled /\ CyclesBroken) =>
        /\ last.err # "RecursionError"
        /\ Len(Entered) <= Cardinality(LinkTargets) + 1
        /\ Len(Pushed) <= Cardinality(LinkTargets)
        /\ (last.err = "" /\ LifecycleSteps # <<>>) =>
              LET s == Last(LifecycleSteps)
              IN IF s.kind = "entry"
                 THEN cfg.nodes[s.node].inside_handlers # <<>>
                 ELSE \/ cfg.nodes[s.node].next_node = None
                      \/ ~cfg.nodes[After.display_node].auto_entry

\* one handling has gone once around a ring of three nodes: it entered nodes
\* 2, 3 and 1 in a row and stopped at 1, the one node that waits for input
C22_Witness ==
    /\ Handled /\ CyclesBroken /\ last.err = ""
    /\ OnCycle(1) /\ CycleOf(1) = {1, 2, 3}
    /\ \A n \in {2, 3} : PassesThrough(n)
    /\ Entered = <<2, 3, 1>>
    /\ After.display_node = 1 /\ After.is_inside_current_node

====
